---- MODULE Spec2Model ----
(***************************************************************************)
(* Travel_Agent.py: a Streamlit script.  Every user event (a widget edit   *)
(* or a button press) runs the whole script once, top to bottom, against   *)
(* st.session_state and the current widget values.  An uncaught exception  *)
(* ends the run and leaves st.session_state as it was written so far.      *)
(*                                                                         *)
(* Text that the script inspects (the destination, the geocoding reply)    *)
(* is a tuple of one-character strings; text that it only passes along     *)
(* (labels, research text, itinerary text) is an opaque string.            *)
(* Coordinates are integers in units of 1/10000 degree.                    *)
(***************************************************************************)
EXTENDS Integers, Sequences, FiniteSets, TLC

VARIABLES
    github_token,       \* os.getenv("GITHUB_TOKEN"): <<>> unset, else <<text>>
    serp_api_key,       \* os.getenv("SERPAPI_API_KEY")
    MAP_AVAILABLE,      \* folium / streamlit_folium import succeeded
    trip_history,       \* st.session_state.trip_history
    research_results,   \* st.session_state.research_results: <<>> is None
    current_trip_data,  \* st.session_state.current_trip_data: <<>> is None
    show_preferences,   \* st.session_state.show_preferences
    inputs,             \* destination, num_days, budget, language widgets
    prefs,              \* the four preference selectboxes and the text area
    picks,              \* the four keyed option widgets
    run,                \* what the last script run did
    events,             \* number of user events handled so far
    today,              \* datetime.now().date() as a day number
    files,              \* document files on disk
    cal                 \* events of the ics Calendar built by the last export

vars == <<github_token, serp_api_key, MAP_AVAILABLE, trip_history,
          research_results, current_trip_data, show_preferences, inputs,
          prefs, picks, run, events, today, files, cal>>

-----------------------------------------------------------------------------
(* Bounds of the model *)

MaxEvents == 4
MaxRespLen == 4
MaxExportDays == 4

-----------------------------------------------------------------------------
(* Text *)

None == <<>>
Some(x) == <<x>>

UpperCase == <<"A","B","C","D","E","F","G","H","I","J","K","L","M",
               "N","O","P","Q","R","S","T","U","V","W","X","Y","Z">>
LowerCase == <<"a","b","c","d","e","f","g","h","i","j","k","l","m",
               "n","o","p","q","r","s","t","u","v","w","x","y","z">>

\* str.lower() on one character
LowerChar(ch) ==
    IF \E i \in 1..26 : UpperCase[i] = ch
    THEN LowerCase[CHOOSE i \in 1..26 : UpperCase[i] = ch]
    ELSE ch

\* str.upper() on one character
UpperChar(ch) ==
    IF \E i \in 1..26 : LowerCase[i] = ch
    THEN UpperCase[CHOOSE i \in 1..26 : LowerCase[i] = ch]
    ELSE ch

\* destination_name.lower()
Lower(s) == [i \in 1..Len(s) |-> LowerChar(s[i])]

Upper(s) == [i \in 1..Len(s) |-> UpperChar(s[i])]

\* Python's  needle in hay  on strings
Contains(hay, needle) ==
    \E i \in 0..(Len(hay) - Len(needle)) :
        SubSeq(hay, i + 1, i + Len(needle)) = needle

-----------------------------------------------------------------------------
(* get_coordinates *)

\* location_coords, in insertion order
location_coords == <<
    [key |-> <<"d","e","l","h","i">>,                 coords |-> <<286139, 772090>>],
    [key |-> <<"m","u","m","b","a","i">>,             coords |-> <<190760, 728777>>],
    [key |-> <<"b","a","n","g","a","l","o","r","e">>, coords |-> <<129716, 775946>>],
    [key |-> <<"c","h","e","n","n","a","i">>,         coords |-> <<130827, 802707>>],
    [key |-> <<"k","o","l","k","a","t","a">>,         coords |-> <<225726, 883639>>],
    [key |-> <<"h","y","d","e","r","a","b","a","d">>, coords |-> <<173850, 784867>>],
    [key |-> <<"p","u","n","e">>,                     coords |-> <<185204, 738567>>],
    [key |-> <<"a","h","m","e","d","a","b","a","d">>, coords |-> <<230225, 725714>>],
    [key |-> <<"j","a","i","p","u","r">>,             coords |-> <<269124, 757873>>],
    [key |-> <<"g","o","a">>,                         coords |-> <<152993, 741240>>],
    [key |-> <<"k","e","r","a","l","a">>,             coords |-> <<108505, 762711>>],
    [key |-> <<"k","a","s","h","m","i","r">>,         coords |-> <<340837, 747973>>],
    [key |-> <<"r","a","j","a","s","t","h","a","n">>, coords |-> <<270238, 742179>>],
    [key |-> <<"u","t","t","a","r","a","k","h","a","n","d">>,
                                                      coords |-> <<300668, 790193>>],
    [key |-> <<"h","i","m","a","c","h","a","l"," ","p","r","a","d","e","s","h">>,
                                                      coords |-> <<311048, 771734>>],
    [key |-> <<"p","a","r","i","s">>,                 coords |-> <<488566, 23522>>],
    [key |-> <<"l","o","n","d","o","n">>,             coords |-> <<515074, -1278>>],
    [key |-> <<"n","e","w"," ","y","o","r","k">>,     coords |-> <<407128, -740060>>],
    [key |-> <<"t","o","k","y","o">>,                 coords |-> <<356762, 1396503>>],
    [key |-> <<"b","a","n","g","k","o","k">>,         coords |-> <<137563, 1005018>>],
    [key |-> <<"d","u","b","a","i">>,                 coords |-> <<252048, 552708>>],
    [key |-> <<"s","i","n","g","a","p","o","r","e">>, coords |-> <<13521, 1038198>>],
    [key |-> <<"m","a","l","a","y","s","i","a">>,     coords |-> <<42105, 1019758>>],
    [key |-> <<"i","n","d","o","n","e","s","i","a">>, coords |-> <<-7893, 1139213>>],
    [key |-> <<"t","h","a","i","l","a","n","d">>,     coords |-> <<158700, 1009925>>],
    [key |-> <<"n","e","p","a","l">>,                 coords |-> <<283949, 841240>>],
    [key |-> <<"b","h","u","t","a","n">>,             coords |-> <<275142, 904336>>],
    [key |-> <<"s","r","i"," ","l","a","n","k","a">>, coords |-> <<78731, 807718>>],
    [key |-> <<"m","a","l","d","i","v","e","s">>,     coords |-> <<32028, 732207>>] >>

\* the fixed fallback, (20.5937, 78.9629)
DefaultCoords == <<205937, 789629>>

\* dest_lower = destination_name.lower()
DestLowerMutant(destination_name) == destination_name
DestLower(destination_name) == Lower(destination_name)

\* for key, coords in location_coords.items(): if key in dest_lower: return coords
\* The result is <<coords>> of the first hit from entry i on, <<>> when none hits.
RECURSIVE ScanTable(_, _)
ScanTable(dest_lower, i) ==
    IF i > Len(location_coords) THEN None
    ELSE IF Contains(dest_lower, location_coords[i].key)
         THEN Some(location_coords[i].coords)
         ELSE ScanTable(dest_lower, i + 1)

Digits == <<"0","1","2","3","4","5","6","7","8","9">>
IsDigit(ch) == \E i \in 1..10 : Digits[i] = ch
DigitVal(ch) == (CHOOSE i \in 1..10 : Digits[i] = ch) - 1
IsSpace(ch) == ch = " "

\* str.strip()
RECURSIVE LStrip(_)
LStrip(s) == IF s # <<>> /\ IsSpace(Head(s)) THEN LStrip(Tail(s)) ELSE s
RECURSIVE RStrip(_)
RStrip(s) == IF s # <<>> /\ IsSpace(s[Len(s)])
             THEN RStrip(SubSeq(s, 1, Len(s) - 1)) ELSE s
Strip(s) == RStrip(LStrip(s))

\* coords_text.split(','): the parts between the commas, in order
RECURSIVE SplitComma(_, _, _)
SplitComma(s, i, part) ==
    IF i > Len(s) THEN <<part>>
    ELSE IF s[i] = ","
         THEN <<part>> \o SplitComma(s, i + 1, <<>>)
         ELSE SplitComma(s, i + 1, Append(part, s[i]))
Split(s) == SplitComma(s, 1, <<>>)

\* value of a digit string read as an integer
RECURSIVE DigitsValue(_)
DigitsValue(ds) ==
    IF ds = <<>> THEN 0
    ELSE 10 * DigitsValue(SubSeq(ds, 1, Len(ds) - 1)) + DigitVal(ds[Len(ds)])

Pow10(n) == CASE n = 0 -> 1 [] n = 1 -> 10 [] n = 2 -> 100 [] n = 3 -> 1000
              [] OTHER -> 10000

\* float(text) over the characters the replies are drawn from:
\*   [sign] digits [. [digits]]  |  [sign] . digits
\* with surrounding whitespace ignored.  Unsigned drops the sign, DotsOf are
\* the positions of the decimal points, IntPart and FracPart the digits on
\* either side of the first.
Signed(t)   == t # <<>> /\ Head(t) \in {"-", "+"}
Unsigned(t) == IF Signed(t) THEN Tail(t) ELSE t
DotsOf(body) == {i \in 1..Len(body) : body[i] = "."}
DotAt(body)  == CHOOSE i \in DotsOf(body) : \A j \in DotsOf(body) : i <= j
IntPart(body) ==
    IF DotsOf(body) = {} THEN body ELSE SubSeq(body, 1, DotAt(body) - 1)
FracPart(body) ==
    IF DotsOf(body) = {} THEN <<>> ELSE SubSeq(body, DotAt(body) + 1, Len(body))
AllDigits(ds) == \A i \in 1..Len(ds) : IsDigit(ds[i])

\* whether float() accepts the stripped text t
FloatAccepts(t) ==
    /\ Cardinality(DotsOf(Unsigned(t))) <= 1
    /\ AllDigits(IntPart(Unsigned(t)))
    /\ AllDigits(FracPart(Unsigned(t)))
    /\ Len(IntPart(Unsigned(t))) + Len(FracPart(Unsigned(t))) > 0

\* the first four decimals, padded to four
Frac4(fp) ==
    DigitsValue(SubSeq(fp, 1, IF Len(fp) < 4 THEN Len(fp) ELSE 4))
      * Pow10(4 - (IF Len(fp) < 4 THEN Len(fp) ELSE 4))

Magnitude(body) == DigitsValue(IntPart(body)) * 10000 + Frac4(FracPart(body))

FloatValue(t) ==
    IF t # <<>> /\ Head(t) = "-" THEN 0 - Magnitude(Unsigned(t))
    ELSE Magnitude(Unsigned(t))

\* float(text): <<value>> in 1/10000 units, <<>> where Python raises ValueError
Float(text) ==
    IF FloatAccepts(Strip(text)) THEN Some(FloatValue(Strip(text))) ELSE None

\* lat_str, lon_str = coords_text.split(','); return float(...), float(...)
\* <<pair>> when the statement returns, <<>> when it raises.
UnpackPairMutant(parts) ==
    IF Len(parts) >= 2 /\ Float(parts[1]) # None /\ Float(parts[2]) # None
    THEN Some(<<Float(parts[1])[1], Float(parts[2])[1]>>)
    ELSE None
UnpackPair(parts) ==
    IF Len(parts) = 2 /\ Float(parts[1]) # None /\ Float(parts[2]) # None
    THEN Some(<<Float(parts[1])[1], Float(parts[2])[1]>>)
    ELSE None

\* if ',' in coords_text: ... ; anything that raises or falls through ends
\* at the default
ParseReply(coords_text) ==
    IF Contains(coords_text, <<",">>) /\ UnpackPair(Split(coords_text)) # None
    THEN UnpackPair(Split(coords_text))[1]
    ELSE DefaultCoords

\* The try block of the AI fallback.  reply.raised: geocode_llm.invoke (or
\* building the client) raised; otherwise reply.content is response.content.
GeocodeFallback(reply) ==
    IF reply.raised THEN DefaultCoords ELSE ParseReply(Strip(reply.content))

\* whether the table has an entry for the destination
InTable(destination_name) == ScanTable(DestLower(destination_name), 1) # None

\* get_coordinates(destination_name): the pair returned and whether the
\* model was called.
get_coordinates(destination_name, reply) ==
    IF InTable(destination_name)
    THEN [coords |-> ScanTable(DestLower(destination_name), 1)[1], called |-> FALSE]
    ELSE [coords |-> GeocodeFallback(reply), called |-> TRUE]

-----------------------------------------------------------------------------
(* Widgets of the script.  The option lists are the script's, with the     *)
(* rupee sign written Rs.                                                  *)

accommodation_options == <<
    "Luxury Hotels (Rs15,000-40,000+ per night)",
    "Mid-range Hotels (Rs4,000-15,000 per night)",
    "Budget Hotels/Hostels (Rs800-4,000 per night)",
    "Local Guesthouses (Rs1,500-6,000 per night)",
    "Vacation Rentals (Rs2,500-20,000 per night)",
    "No Preference" >>

activity_options == <<
    "Adventure & Sports (Rs2,000-10,000 per activity)",
    "Cultural & Historical (Rs500-3,000 per site)",
    "Relaxation & Wellness (Rs1,500-8,000 per session)",
    "Shopping & Entertainment (Rs1,000-5,000 per experience)",
    "Nature & Wildlife (Rs1,000-6,000 per experience)",
    "Mix of Everything" >>

dining_options == <<
    "Fine Dining (Rs3,500-10,000+ per meal)",
    "Local Street Food (Rs200-800 per meal)",
    "Mix of Both (Rs800-4,000 per meal)",
    "Vegetarian/Vegan (Rs400-2,500 per meal)",
    "Budget-Friendly (Rs300-1,500 per meal)",
    "No Preference" >>

transport_options == <<
    "Public Transport (Rs50-500 per day)",
    "Rental Car (Rs2,000-6,000 per day)",
    "Walking/Cycling (Rs200-800 per day for rentals)",
    "Ride-sharing/Taxi (Rs500-2,000 per trip)",
    "Tour Groups (Rs1,500-5,000 per day)",
    "No Preference" >>

\* the four preference sections, in the order the script runs them
Categories == <<"accommodation", "activities", "dining", "transportation">>
CategorySet == {Categories[i] : i \in 1..Len(Categories)}

PrefOptions(c) ==
    CASE c = "accommodation"  -> accommodation_options
      [] c = "activities"     -> activity_options
      [] c = "dining"         -> dining_options
      [] c = "transportation" -> transport_options

\* the index= argument of each st.selectbox, counted from 1
DefaultPrefIndex(c) ==
    CASE c = "accommodation"  -> 2
      [] c = "activities"     -> 6
      [] c = "dining"         -> 3
      [] c = "transportation" -> 1

\* the label whose branch skips the recommendation call
Sentinel(c) == IF c = "activities" THEN "Mix of Everything" ELSE "No Preference"

\* st.multiselect for activities and dining, st.selectbox for the other two
MultiChoice(c) == c \in {"activities", "dining"}

\* the options of the keyed st.selectbox of a single-choice category
SingleOptions(c) ==
    IF c = "accommodation"
    THEN <<"Option 1", "Option 2", "Option 3", "Let AI decide based on budget">>
    ELSE <<"Option 1", "Option 2", "Option 3", "Combination of options">>

\* the options of the keyed st.multiselect
MultiOptions == <<"Option 1", "Option 2", "Option 3">>

PrefOf(p, c) ==
    CASE c = "accommodation"  -> p.accommodation_pref
      [] c = "activities"     -> p.activity_pref
      [] c = "dining"         -> p.dining_pref
      [] c = "transportation" -> p.transport_pref

\* the value of the option widget of category c
PickOfMutant(k, c) ==
    CASE c = "accommodation"  -> k.transport_selection
      [] c = "activities"     -> k.activity_selection
      [] c = "dining"         -> k.dining_selection
      [] c = "transportation" -> k.accommodation_selection
PickOf(k, c) ==
    CASE c = "accommodation"  -> k.accommodation_selection
      [] c = "activities"     -> k.activity_selection
      [] c = "dining"         -> k.dining_selection
      [] c = "transportation" -> k.transport_selection

PrefWidget(c) ==
    CASE c = "accommodation"  -> "accommodation_pref"
      [] c = "activities"     -> "activity_pref"
      [] c = "dining"         -> "dining_pref"
      [] c = "transportation" -> "transport_pref"

PickWidget(c) ==
    CASE c = "accommodation"  -> "accommodation_selection"
      [] c = "activities"     -> "activity_selection"
      [] c = "dining"         -> "dining_selection"
      [] c = "transportation" -> "transport_selection"

\* widget values of a fresh session: the value= / index= defaults
DefaultInputs ==
    [destination |-> <<>>, num_days |-> 7, budget |-> 100000, language |-> "English"]

DefaultPrefs ==
    [accommodation_pref |-> accommodation_options[DefaultPrefIndex("accommodation")],
     activity_pref      |-> activity_options[DefaultPrefIndex("activities")],
     dining_pref        |-> dining_options[DefaultPrefIndex("dining")],
     transport_pref     |-> transport_options[DefaultPrefIndex("transportation")],
     special_requests   |-> ""]

DefaultPicks ==
    [accommodation_selection |-> "Option 1",
     activity_selection      |-> <<>>,
     dining_selection        |-> <<>>,
     transport_selection     |-> "Option 1"]

-----------------------------------------------------------------------------
(* Values the user and the services supply *)

Goa == <<"G","o","a">>
Oz  == <<"O","z">>

DestinationPool == {<<>>, Goa, Oz}
NumDaysPool     == {2, 7}
BudgetPool      == {100000, 5000}
LanguagePool    == {"English", "Hindi"}

\* the labels the user moves each selectbox between: its default, one other
\* label and the sentinel
PrefPool(c) ==
    {PrefOptions(c)[DefaultPrefIndex(c)], PrefOptions(c)[1], Sentinel(c)}

\* the values the user gives a keyed option widget
PickPool(c) ==
    IF MultiChoice(c)
    THEN {<<>>, <<"Option 2">>, <<"Option 3", "Option 1">>}
    ELSE {SingleOptions(c)[1], SingleOptions(c)[4]}

SpecialRequestsPool == {"", "vegetarian food"}

ResearchPool  == {"research A", "research B"}
ItineraryPool == {"itinerary A", "itinerary B"}
IdPool        == {"1f0e9a7c"}
TokenPool     == {None, Some(""), Some("token")}

\* replies of the geocoding call the session is run against
GeoReplyPool ==
    {[raised |-> TRUE,  content |-> <<>>],
     [raised |-> FALSE, content |-> <<"1", ".", "5", ",", "7">>],
     [raised |-> FALSE, content |-> <<"O", "z">>]}

NoReply == [raised |-> TRUE, content |-> <<>>]

-----------------------------------------------------------------------------
(* One run of the script, block by block.  m is the machine the run works  *)
(* on: the four st.session_state entries and the record of the run.        *)

\* truth value of an environment variable: unset and empty are both false
Truthy(v) == v # None /\ v[1] # ""

\* github_token and serp_api_key
CredentialsSetMutant(token, key) == Truthy(token) \/ Truthy(key)
CredentialsSet(token, key) == Truthy(token) /\ Truthy(key)

\* widgets above the first button: always rendered
TopWidgets == {"destination", "num_days", "budget", "language", "start_button"}

\* the run starts: the "if ... not in st.session_state" guards leave the
\* session as it is; line 53 warns when a credential is missing
BeginRun(ev, ss, token, key) ==
    [trip_history      |-> ss.trip_history,
     research_results  |-> ss.research_results,
     current_trip_data |-> ss.current_trip_data,
     show_preferences  |-> ss.show_preferences,
     run |-> [event          |-> ev,
              status         |-> "running",
              calls          |-> <<>>,
              messages       |-> IF CredentialsSet(token, key) THEN <<>>
                                 ELSE <<"warning: set credentials">>,
              rendered       |-> TopWidgets,
              llm            |-> FALSE,
              selected       |-> <<>>,
              planner_input  |-> None,
              itinerary_text |-> None,
              downloads      |-> <<>>,
              coords         |-> None,
              map            |-> "none",
              export         |-> "none",
              pdf_generated  |-> FALSE]]

Say(m, text) == [m EXCEPT !.run.messages = Append(@, text)]
Call(m, c)   == [m EXCEPT !.run.calls = Append(@, c)]
Render(m, w) == [m EXCEPT !.run.rendered = @ \cup w]
\* an exception nothing catches: the run stops there, st.session_state stays
FailMutant(m, how) == [m EXCEPT !.run.status = how, !.show_preferences = FALSE]
Fail(m, how) == [m EXCEPT !.run.status = how]

\* research_input: the values interpolated into researcher_prompt
ResearchInput(inp) ==
    [destination |-> inp.destination, num_days |-> inp.num_days,
     budget |-> inp.budget, language |-> inp.language]

\* lines 159-166: the three session writes of a successful research
StoreResearchMutant(m, inp, output) ==
    [m EXCEPT !.research_results = Some(output),
              !.show_preferences = TRUE]
StoreResearch(m, inp, output) ==
    [m EXCEPT !.research_results  = Some(output),
              !.current_trip_data = Some([destination |-> inp.destination,
                                          num_days    |-> inp.num_days,
                                          budget      |-> inp.budget,
                                          language    |-> inp.language]),
              !.show_preferences  = TRUE]

\* researcher.invoke({"input": research_input})
ResearchCall(inp, research) ==
    [site |-> "researcher", prompt |-> ResearchInput(inp),
     searches |-> research.searches, raised |-> research.raised]

\* elif not destination:
DestinationMissingMutant(inp) == FALSE
DestinationMissing(inp) == inp.destination = <<>>

\* researcher.invoke raises at line 156: the exception leaves the script
\* before the writes of lines 159-166
ResearchRaisedMutant(m, inp, research) ==
    Fail(Call([m EXCEPT !.current_trip_data = Some(ResearchInput(inp))],
              ResearchCall(inp, research)),
         "exception")
ResearchRaised(m, inp, research) ==
    Fail(Call(m, ResearchCall(inp, research)), "exception")

\* if generate_clicked: ... (lines 63-169).  research is the outcome of
\* researcher.invoke: raised, or its output after some search_google calls.
\* After st.rerun() the script starts again with generate_clicked False, so
\* the blocks below run in the same event.
StartBlockMutant(m, inp, token, key, research) ==
    IF m.run.event # "start" THEN m
    ELSE IF ~CredentialsSet(token, key)
         THEN Say(m, "error: set credentials")
    ELSE IF DestinationMissing(inp)
         THEN Say(m, "error: enter destination")
    ELSE IF research.raised
         THEN ResearchRaised([m EXCEPT !.show_preferences = TRUE], inp, research)
    ELSE Say(StoreResearch(Call(m, ResearchCall(inp, research)), inp, research.output),
             "success: research completed")
StartBlock(m, inp, token, key, research) ==
    IF m.run.event # "start" THEN m
    ELSE IF ~CredentialsSet(token, key)
         THEN Say(m, "error: set credentials")
    ELSE IF DestinationMissing(inp)
         THEN Say(m, "error: enter destination")
    ELSE IF research.raised
         THEN ResearchRaised(m, inp, research)
    ELSE Say(StoreResearch(Call(m, ResearchCall(inp, research)), inp, research.output),
             "success: research completed")

\* the values interpolated into a recommendation prompt
RecommendationPrompt(label, rr, td) ==
    [preference |-> label, language |-> td.language,
     destination |-> td.destination, research |-> rr,
     budget |-> td.budget, num_days |-> td.num_days]

\* if <pref> != <sentinel>:
NeedsRecommendationMutant(c, label) == TRUE
NeedsRecommendation(c, label) == label # Sentinel(c)

\* the else branch: the selection recorded for the sentinel label
SentinelSelection(c) == IF MultiChoice(c) THEN <<Sentinel(c)>> ELSE Sentinel(c)

\* the selection recorded from the option widget: an empty multiselect
\* becomes ["Option 1"]
RecordedSelectionMutant(c, pick) == pick
RecordedSelection(c, pick) ==
    IF MultiChoice(c) /\ pick = <<>> THEN <<"Option 1">> ELSE pick

\* whether the section of category c binds the name llm before using it:
\* only the accommodation section builds a ChatOpenAI client (line 219)
CreatesLlm(c) == c = "accommodation"

\* llm.invoke(<category>_search_prompt)
RecommendationCall(m, c, label, raises) ==
    [site |-> c,
     prompt |-> RecommendationPrompt(label, m.research_results[1],
                                     m.current_trip_data[1]),
     raised |-> raises]

Select(m, c, value) == [m EXCEPT !.run.selected = (c :> value) @@ @]
Bind(m) == [m EXCEPT !.run.llm = TRUE]

\* One preference section (accommodation 186-265, activities 268-342,
\* dining 345-422, transportation 425-500).  raises: this section's
\* llm.invoke raises.
Refine(m, c, p, k, raises) ==
    IF m.run.status # "running" THEN m
    ELSE IF ~NeedsRecommendation(c, PrefOf(p, c))
         THEN Select(Render(m, {PrefWidget(c)}), c, SentinelSelection(c))
    ELSE IF ~(m.run.llm \/ CreatesLlm(c))
         THEN Fail(Render(m, {PrefWidget(c)}), "NameError")
    ELSE IF raises
         THEN Fail(Call(Bind(Render(m, {PrefWidget(c)})),
                        RecommendationCall(m, c, PrefOf(p, c), raises)),
                   "exception")
    ELSE Select(Render(Call(Bind(m), RecommendationCall(m, c, PrefOf(p, c), raises)),
                       {PrefWidget(c), PickWidget(c)}),
                c, RecordedSelection(c, PickOf(k, c)))

\* if st.session_state.show_preferences and research_results is not None:
PanelOpen(m) == m.show_preferences /\ m.research_results # None

\* the special-requests text area and the synthesis button
PanelEnd(m) ==
    IF m.run.status = "running"
    THEN Render(m, {"special_requests", "generate_itinerary"})
    ELSE m

\* lines 172-509: the four sections in order.  fail names the section whose
\* llm.invoke raises, "none" when none does.
PanelBlock(m, p, k, fail) ==
    IF m.run.status # "running" \/ ~PanelOpen(m) THEN m
    ELSE PanelEnd(
           Refine(
             Refine(
               Refine(
                 Refine(m, Categories[1], p, k, fail = Categories[1]),
                 Categories[2], p, k, fail = Categories[2]),
               Categories[3], p, k, fail = Categories[3]),
             Categories[4], p, k, fail = Categories[4]))

\* the part of planner_input and of the record that lists the choices
Preferences(sel, p) ==
    [accommodation          |-> p.accommodation_pref,
     selected_accommodation |-> sel["accommodation"],
     activities             |-> p.activity_pref,
     selected_activities    |-> sel["activities"],
     dining                 |-> p.dining_pref,
     selected_dining        |-> sel["dining"],
     transportation         |-> p.transport_pref,
     selected_transport     |-> sel["transportation"],
     special_requests       |-> p.special_requests]

\* planner_input: the values interpolated into the synthesis prompt
PlannerInputMutant(m, p) ==
    [language    |-> inputs.language,
     destination |-> inputs.destination,
     num_days    |-> inputs.num_days,
     budget      |-> inputs.budget,
     research    |-> m.research_results[1],
     preferences |-> Preferences(m.run.selected, p)]
PlannerInput(m, p) ==
    [language    |-> m.current_trip_data[1].language,
     destination |-> m.current_trip_data[1].destination,
     num_days    |-> m.current_trip_data[1].num_days,
     budget      |-> m.current_trip_data[1].budget,
     research    |-> m.research_results[1],
     preferences |-> Preferences(m.run.selected, p)]

\* the dictionary of lines 570-590
TripRecordMutant(m, p, itinerary_text, trip_id, now) ==
    [id          |-> trip_id,
     destination |-> m.current_trip_data[1].destination,
     days        |-> m.current_trip_data[1].num_days,
     budget      |-> m.current_trip_data[1].budget,
     language    |-> m.current_trip_data[1].language,
     itinerary   |-> itinerary_text,
     research    |-> "research A",
     preferences |-> Preferences(m.run.selected, p),
     date        |-> now]
TripRecord(m, p, itinerary_text, trip_id, now) ==
    [id          |-> trip_id,
     destination |-> m.current_trip_data[1].destination,
     days        |-> m.current_trip_data[1].num_days,
     budget      |-> m.current_trip_data[1].budget,
     language    |-> m.current_trip_data[1].language,
     itinerary   |-> itinerary_text,
     research    |-> m.research_results[1],
     preferences |-> Preferences(m.run.selected, p),
     date        |-> now]

\* st.session_state.trip_history.append(...)
AppendTripMutant(history, record) ==
    IF history = <<>> THEN <<record>> ELSE [history EXCEPT ![Len(history)] = record]
AppendTrip(history, record) == Append(history, record)

\* planner_llm.invoke(planner_input)
PlannerCall(m, p, planner) ==
    [site |-> "planner", prompt |-> PlannerInput(m, p), raised |-> planner.raised,
     response |-> planner.content]

\* the one call of line 561, with the prompt it was given
AskedMutant(m, p, planner) ==
    [Call(Call(m, PlannerCall(m, p, planner)), PlannerCall(m, p, planner))
        EXCEPT !.run.planner_input = Some(PlannerInput(m, p))]
Asked(m, p, planner) ==
    [Call(m, PlannerCall(m, p, planner))
        EXCEPT !.run.planner_input = Some(PlannerInput(m, p))]

\* lines 562-595: the itinerary is shown, the record appended and the two
\* export buttons drawn
SynthesizedMutant(m, p, itinerary_text, trip_id, now) ==
    Render([Say(m, "success: itinerary ready")
              EXCEPT !.run.itinerary_text = Some(itinerary_text),
                     !.trip_history = AppendTrip(@, TripRecord(m, DefaultPrefs,
                                                               itinerary_text,
                                                               trip_id, now))],
           {"generate_pdf", "download_calendar"})
Synthesized(m, p, itinerary_text, trip_id, now) ==
    Render([Say(m, "success: itinerary ready")
              EXCEPT !.run.itinerary_text = Some(itinerary_text),
                     !.trip_history = AppendTrip(@, TripRecord(m, p, itinerary_text,
                                                               trip_id, now))],
           {"generate_pdf", "download_calendar"})

\* if st.button("Generate My Personalized Itinerary"): lines 512-590.
\* planner is the outcome of planner_llm.invoke.
SynthesisBlock(m, p, planner, trip_id, now) ==
    IF m.run.status # "running" \/ ~PanelOpen(m) \/ m.run.event # "synthesize"
    THEN m
    ELSE IF planner.raised
         THEN Fail(Asked(m, p, planner), "exception")
    ELSE Synthesized(Asked(m, p, planner), p, planner.content, trip_id, now)

\* the call get_coordinates makes when the table has no entry
GeocodeCall(destination_name, reply) ==
    [site |-> "geocode", prompt |-> [destination |-> destination_name],
     raised |-> reply.raised, response |-> reply.content]

\* get_coordinates as the run sees it: the coordinates are kept and the
\* model call, when one is made, is recorded
Locate(m, reply) ==
    [(IF get_coordinates(m.current_trip_data[1].destination, reply).called
      THEN Call(m, GeocodeCall(m.current_trip_data[1].destination, reply))
      ELSE m)
        EXCEPT !.run.coords =
            Some(get_coordinates(m.current_trip_data[1].destination, reply).coords)]

ShowMap(m, how) == [m EXCEPT !.run.map = how]

\* lines 832-946, reached at the end of a successful synthesis.  render_ok:
\* folium and st_folium draw the map; otherwise the except branch runs and
\* asks get_coordinates again (reply2).
MapBlock(m, map_available, reply1, reply2, render_ok) ==
    IF m.run.status # "running" \/ m.run.itinerary_text = None THEN m
    ELSE IF ~map_available
         THEN ShowMap(Say(Say(m, "warning: maps not available"), "info: destination"),
                      "destination as text")
    ELSE IF render_ok
         THEN ShowMap(Say(Locate(m, reply1), "success: located"), "rendered")
    ELSE ShowMap(
           Say(Say(Locate(Say(Say(Locate(m, reply1), "success: located"),
                              "warning: map display error"),
                          reply2),
                   "info: destination"),
               "info: coordinates"),
           "destination and coordinates as text")

\* lines 949-1000: the history expanders, drawn when the list is not empty
HistoryBlockMutant(m) ==
    IF m.run.status = "running" /\ m.trip_history # <<>>
    THEN [Render(m, {"trip_history"})
            EXCEPT !.research_results =
                      Some(m.trip_history[Len(m.trip_history)].itinerary)]
    ELSE m
HistoryBlock(m) ==
    IF m.run.status = "running" /\ m.trip_history # <<>>
    THEN Render(m, {"trip_history"})
    ELSE m

-----------------------------------------------------------------------------
(* Outcomes of the services, drawn only where the run reaches the call *)

\* max_iterations of the researcher agent
max_iterations == 3

NoResearch == [raised |-> TRUE, output |-> "", searches |-> 0]

ResearchChoices(ev, inp, token, key) ==
    IF ev = "start" /\ CredentialsSet(token, key) /\ inp.destination # <<>>
    THEN {[raised |-> b, output |-> IF b THEN "" ELSE r, searches |-> n] :
              b \in BOOLEAN, r \in ResearchPool, n \in {0, max_iterations}}
    ELSE {NoResearch}

SitesOf(calls) == {calls[i].site : i \in 1..Len(calls)}

\* the sections whose llm.invoke may be the one that raises
FailChoices(m, p, k) ==
    {"none"} \cup (SitesOf(PanelBlock(m, p, k, "none").run.calls) \cap CategorySet)

NoPlanner == [raised |-> TRUE, content |-> ""]

PlannerChoices(m) ==
    IF m.run.status = "running" /\ PanelOpen(m) /\ m.run.event = "synthesize"
    THEN {NoPlanner} \cup {[raised |-> FALSE, content |-> t] : t \in ItineraryPool}
    ELSE {NoPlanner}

\* whether the map block draws: a synthesis succeeded and the libraries exist
Draws(m, map_available) ==
    m.run.status = "running" /\ m.run.itinerary_text # None /\ map_available

\* whether the map block will ask the model: the table has no entry
AsksModel(m, map_available) ==
    Draws(m, map_available) /\ ~InTable(m.current_trip_data[1].destination)

-----------------------------------------------------------------------------
(* The session *)

Session == [trip_history |-> trip_history, research_results |-> research_results,
            current_trip_data |-> current_trip_data,
            show_preferences |-> show_preferences]

\* the machine as a block inside a run finds it
Machine == [trip_history |-> trip_history, research_results |-> research_results,
            current_trip_data |-> current_trip_data,
            show_preferences |-> show_preferences, run |-> run]

\* the run is over: its writes to st.session_state and its record are kept
Finish(m) ==
    /\ trip_history' = m.trip_history
    /\ research_results' = m.research_results
    /\ current_trip_data' = m.current_trip_data
    /\ show_preferences' = m.show_preferences
    /\ run' = m.run

\* the map and the history, after the synthesis block
RunTail(m) ==
    \E render_ok \in IF Draws(m, MAP_AVAILABLE) THEN BOOLEAN ELSE {TRUE} :
    \E reply1 \in IF AsksModel(m, MAP_AVAILABLE) THEN GeoReplyPool ELSE {NoReply} :
    \E reply2 \in IF AsksModel(m, MAP_AVAILABLE) /\ ~render_ok
                  THEN GeoReplyPool ELSE {NoReply} :
        Finish(HistoryBlock(MapBlock(m, MAP_AVAILABLE, reply1, reply2, render_ok)))

\* the synthesis block, after the panel
RunSynthesis(m, p) ==
    \E planner \in PlannerChoices(m), trip_id \in IdPool :
        RunTail(SynthesisBlock(m, p, planner, trip_id, today))

\* the panel, after the start block
RunPanel(m, p, k) ==
    \E fail \in FailChoices(m, p, k) : RunSynthesis(PanelBlock(m, p, k, fail), p)

\* the script from its first line
RunScript(ev, inp, p, k) ==
    \E research \in ResearchChoices(ev, inp, github_token, serp_api_key) :
        RunPanel(StartBlock(BeginRun(ev, Session, github_token, serp_api_key),
                            inp, github_token, serp_api_key, research),
                 p, k)

\* One user event: the widgets take the values inp, p, k and the script runs.
Handle(ev, inp, p, k) ==
    /\ events < MaxEvents
    /\ RunScript(ev, inp, p, k)
    /\ inputs' = inp
    /\ prefs' = p
    /\ picks' = k
    /\ events' = events + 1
    /\ UNCHANGED <<github_token, serp_api_key, MAP_AVAILABLE, today, files, cal>>

\* the user edits one of the four trip inputs
EditTripInput ==
    \/ \E d \in DestinationPool \ {inputs.destination} :
          Handle("edit", [inputs EXCEPT !.destination = d], prefs, picks)
    \/ \E n \in NumDaysPool \ {inputs.num_days} :
          Handle("edit", [inputs EXCEPT !.num_days = n], prefs, picks)
    \/ \E b \in BudgetPool \ {inputs.budget} :
          Handle("edit", [inputs EXCEPT !.budget = b], prefs, picks)
    \/ \E l \in LanguagePool \ {inputs.language} :
          Handle("edit", [inputs EXCEPT !.language = l], prefs, picks)

WithPref(p, c, label) ==
    CASE c = "accommodation"  -> [p EXCEPT !.accommodation_pref = label]
      [] c = "activities"     -> [p EXCEPT !.activity_pref = label]
      [] c = "dining"         -> [p EXCEPT !.dining_pref = label]
      [] c = "transportation" -> [p EXCEPT !.transport_pref = label]

WithPick(k, c, pick) ==
    CASE c = "accommodation"  -> [k EXCEPT !.accommodation_selection = pick]
      [] c = "activities"     -> [k EXCEPT !.activity_selection = pick]
      [] c = "dining"         -> [k EXCEPT !.dining_selection = pick]
      [] c = "transportation" -> [k EXCEPT !.transport_selection = pick]

\* the user picks another label in a preference selectbox that is on screen
ChangePreference ==
    \E c \in CategorySet :
        /\ PrefWidget(c) \in run.rendered
        /\ \E label \in PrefPool(c) \ {PrefOf(prefs, c)} :
              Handle("edit", inputs, WithPref(prefs, c, label), picks)

\* the user changes a keyed option widget that is on screen
ChangeSelection ==
    \E c \in CategorySet :
        /\ PickWidget(c) \in run.rendered
        /\ \E pick \in PickPool(c) \ {PickOf(picks, c)} :
              Handle("edit", inputs, prefs, WithPick(picks, c, pick))

\* the user edits the special-requests text area
EditSpecialRequests ==
    /\ "special_requests" \in run.rendered
    /\ \E t \in SpecialRequestsPool \ {prefs.special_requests} :
          Handle("edit", inputs, [prefs EXCEPT !.special_requests = t], picks)

\* the user presses "Start Research & Planning"
ClickStart == Handle("start", inputs, prefs, picks)

\* the user presses "Generate My Personalized Itinerary"
ClickGenerateItinerary ==
    /\ "generate_itinerary" \in run.rendered
    /\ Handle("synthesize", inputs, prefs, picks)

\* the user presses "Generate PDF": the script runs again, and in that run
\* st.button("Generate My Personalized Itinerary") is False
ClickGeneratePDF ==
    /\ "generate_pdf" \in run.rendered
    /\ Handle("generate_pdf", inputs, prefs, picks)

\* the user presses "Download Calendar (.ics)"
ClickDownloadCalendar ==
    /\ "download_calendar" \in run.rendered
    /\ Handle("download_calendar", inputs, prefs, picks)

\* load_dotenv() at the top of a run finds a credential that was missing
\* (it never unsets one that is set)
LoadDotenv ==
    /\ \/ /\ ~Truthy(github_token)
          /\ github_token' = Some("token")
          /\ UNCHANGED serp_api_key
       \/ /\ ~Truthy(serp_api_key)
          /\ serp_api_key' = Some("token")
          /\ UNCHANGED github_token
    /\ UNCHANGED <<MAP_AVAILABLE, trip_history, research_results, current_trip_data,
                   show_preferences, inputs, prefs, picks, run, events, today,
                   files, cal>>

EmptySession == [trip_history |-> <<>>, research_results |-> None,
                 current_trip_data |-> None, show_preferences |-> FALSE]

Init ==
    /\ github_token \in TokenPool
    /\ serp_api_key \in TokenPool
    /\ MAP_AVAILABLE \in BOOLEAN
    /\ trip_history = <<>>
    /\ research_results = None
    /\ current_trip_data = None
    /\ show_preferences = FALSE
    /\ inputs = DefaultInputs
    /\ prefs = DefaultPrefs
    /\ picks = DefaultPicks
    /\ run = BeginRun("load", EmptySession, github_token, serp_api_key).run
    /\ events = 0
    /\ today = 0
    /\ files = {}
    /\ cal = {}

Next ==
    \/ EditTripInput
    \/ ChangePreference
    \/ ChangeSelection
    \/ EditSpecialRequests
    \/ ClickStart
    \/ ClickGenerateItinerary
    \/ ClickGeneratePDF
    \/ ClickDownloadCalendar
    \/ LoadDotenv

Spec == Init /\ [][Next]_vars

-----------------------------------------------------------------------------
(* The two export blocks, lines 597-830.  They stand inside                *)
(* "if st.button(Generate My Personalized Itinerary)", so they work on the *)
(* locals of a synthesis run: trip_data, the selections, itinerary_text.   *)
(* x is what a block works on: the record of the run, the files on disk    *)
(* and the calendar.                                                       *)

XSay(x, text)  == [x EXCEPT !.run.messages = Append(@, text)]
XOffer(x, d)   == [x EXCEPT !.run.downloads = Append(@, d)]
XWrite(x, f)   == [x EXCEPT !.files = @ \cup {f}]
XRemove(x, f)  == [x EXCEPT !.files = @ \ {f}]

\* trip_data['destination'].replace(' ', '_')
Underscored(s) == [i \in 1..Len(s) |-> IF s[i] = " " THEN "_" ELSE s[i]]

\* f"itinerary_{...}_{export_trip_id}.pdf" and the .txt and .ics names
FileName(stem, destination, export_trip_id, ext) ==
    [stem |-> stem, destination |-> Underscored(destination),
     id |-> export_trip_id, ext |-> ext]

\* the block starts: nothing offered yet, pdf_generated = False
BeginExport(r, op) ==
    [r EXCEPT !.export = op, !.downloads = <<>>, !.pdf_generated = FALSE,
              !.messages = <<>>]

\* a write that raised may have left the file behind or not
Litter(x, f, left) == IF left THEN XWrite(x, f) ELSE x

\* Method 2 (lines 688-735): ReportLab, tried when WeasyPrint raised
ReportLab(x, f, o) ==
    IF o.reportlab
    THEN XSay([XWrite(x, f) EXCEPT !.run.pdf_generated = TRUE],
              "info: PDF generated using ReportLab")
    ELSE XSay(Litter(x, f, o.reportlab_litter),
              "error: all PDF generation methods failed")

\* Method 1 (lines 680-686): WeasyPrint
WeasyPrint(x, f, o) ==
    IF o.weasyprint
    THEN XSay([XWrite(x, f) EXCEPT !.run.pdf_generated = TRUE],
              "info: PDF generated using WeasyPrint")
    ELSE ReportLab(Litter(x, f, o.weasyprint_litter), f, o)

\* except Exception as pdf_error (line 786)
ExportFailed(x) == XSay(x, "error: export failed")

\* try: os.remove(pdf_filename) except: pass
CleanUp(x, f, removed) == IF removed THEN XRemove(x, f) ELSE x

PdfDownload(f)  == [label |-> "Download PDF", file_name |-> f,
                    mime |-> "application/pdf"]
TextDownload(f) == [label |-> "Download as Text File", file_name |-> f,
                    mime |-> "text/plain"]

\* lines 737-784: offer the PDF that was generated, or the text instead
OfferDocumentMutant(x, f, t, o) ==
    IF ~o.offer THEN ExportFailed(x)
    ELSE XOffer(XSay(x, "warning: PDF generation unavailable"), TextDownload(t))
OfferDocument(x, f, t, o) ==
    IF x.run.pdf_generated
    THEN IF ~o.read \/ ~o.offer
         THEN ExportFailed(x)
         ELSE XSay(CleanUp(XOffer(x, PdfDownload(f)), f, o.remove),
                   "success: PDF ready for download")
    ELSE IF ~o.offer
         THEN ExportFailed(XSay(x, "warning: PDF generation unavailable"))
         ELSE XOffer(XSay(x, "warning: PDF generation unavailable"), TextDownload(t))

\* an outcome the block never asks for is fixed at TRUE, so that each path
\* through the block is drawn once
AskedFor(o) ==
    /\ o.weasyprint => o.weasyprint_litter /\ o.reportlab
    /\ o.reportlab => o.reportlab_litter
    /\ ~(o.weasyprint \/ o.reportlab) => o.read /\ o.remove
    /\ ~o.read => o.offer
    /\ ~o.offer => o.remove

\* the outcomes of the library and file-system calls of one document export
DocumentOutcomes ==
    {o \in [weasyprint : BOOLEAN, weasyprint_litter : BOOLEAN,
            reportlab : BOOLEAN, reportlab_litter : BOOLEAN,
            read : BOOLEAN, offer : BOOLEAN, remove : BOOLEAN] : AskedFor(o)}

\* the body of  if st.button("Generate PDF")
DocumentExport(x, destination, export_trip_id, o) ==
    OfferDocument(
        WeasyPrint([x EXCEPT !.run = BeginExport(@, "generate_pdf")],
                   FileName("itinerary", destination, export_trip_id, "pdf"), o),
        FileName("itinerary", destination, export_trip_id, "pdf"),
        FileName("itinerary", destination, export_trip_id, "txt"), o)

\* timedelta(hours=8)
EventHours == 8

\* one pass of the loop body, lines 802-807
CalendarEvent(r, td, start_date, i) ==
    [uid         |-> i,
     name        |-> [destination |-> td.destination, day |-> i + 1],
     begin       |-> start_date + i,
     description |-> [day |-> i + 1, destination |-> td.destination,
                      budget |-> td.budget, selected |-> r.selected,
                      itinerary |-> r.itinerary_text[1]],
     duration    |-> EventHours]

\* range(trip_data['num_days'])
DayRangeMutant(num_days) == 1..(num_days - 1)
DayRange(num_days) == 0..(num_days - 1)

\* for i in range(num_days): ... cal.events.add(e)
BuildCalendar(r, td, start_date) ==
    {CalendarEvent(r, td, start_date, i) : i \in DayRange(td.num_days)}

CalendarDownload(f, events_) ==
    [label |-> "Download Calendar", file_name |-> f, mime |-> "text/calendar",
     body |-> events_]

\* lines 821-830: the except branch and its pip install
CalendarFailed(x, o) ==
    XSay(XSay(XSay(x, "error: creating calendar"), "info: installing packages"),
         IF o.pip THEN "info: ics installed, try again"
         ELSE "warning: could not auto-install")

CalendarOutcomes == [import : BOOLEAN, offer : BOOLEAN, pip : BOOLEAN]

\* the calendar once the loop has run
Built(x, td, start_date) == [x EXCEPT !.cal = BuildCalendar(x.run, td, start_date)]

\* the body of  if st.button("Download Calendar (.ics)")
CalendarExportFrom(x, td, start_date, export_trip_id, o) ==
    IF ~o.import THEN CalendarFailed(x, o)
    ELSE IF ~o.offer THEN CalendarFailed(Built(x, td, start_date), o)
    ELSE XSay(XOffer(Built(x, td, start_date),
                     CalendarDownload(FileName("trip", td.destination,
                                               export_trip_id, "ics"),
                                      BuildCalendar(x.run, td, start_date))),
              "success: calendar ready")

CalendarExport(x, td, start_date, export_trip_id, o) ==
    CalendarExportFrom([x EXCEPT !.run = BeginExport(@, "download_calendar"),
                                 !.cal = {}],
                       td, start_date, export_trip_id, o)

ExportIdPool == {"5c1d2e3f", "9a8b7c6d"}

Exporting == [run |-> run, files |-> files, cal |-> cal]

ExportFrame ==
    UNCHANGED <<github_token, serp_api_key, MAP_AVAILABLE, trip_history,
                research_results, current_trip_data, show_preferences, inputs,
                prefs, picks, events, today>>

\* the block is over: what it left behind
Exported(x) ==
    /\ run' = x.run
    /\ files' = x.files
    /\ cal' = x.cal

\* the document export block runs on the locals of the synthesis run
GeneratePDF ==
    /\ run.itinerary_text # None
    /\ \E o \in DocumentOutcomes, export_trip_id \in ExportIdPool :
          Exported(DocumentExport(Exporting, current_trip_data[1].destination,
                                  export_trip_id, o))
    /\ ExportFrame

\* the calendar export block runs on the locals of the synthesis run
DownloadCalendar ==
    /\ run.itinerary_text # None
    /\ \E o \in CalendarOutcomes, export_trip_id \in ExportIdPool :
          Exported(CalendarExport(Exporting, current_trip_data[1], today,
                                  export_trip_id, o))
    /\ ExportFrame

\* research and synthesis have both succeeded for these widget values
Researched(inp) ==
    StartBlock(BeginRun("start", EmptySession, Some("token"), Some("token")),
               inp, Some("token"), Some("token"),
               [raised |-> FALSE, output |-> "research A", searches |-> max_iterations])

SessionOf(m) ==
    [trip_history |-> m.trip_history, research_results |-> m.research_results,
     current_trip_data |-> m.current_trip_data,
     show_preferences |-> m.show_preferences]

SynthesizedFor(inp, p, k, now) ==
    SynthesisBlock(
        PanelBlock(BeginRun("synthesize", SessionOf(Researched(inp)),
                            Some("token"), Some("token")),
                   p, k, "none"),
        p, [raised |-> FALSE, content |-> "itinerary A"], "1f0e9a7c", now)

ExportDestinations == {Goa, <<"N","e","w"," ","Y","o","r","k">>}

ExportInputs ==
    {[destination |-> d, num_days |-> n, budget |-> 100000, language |-> "English"] :
        d \in ExportDestinations, n \in 1..MaxExportDays}

ExportPrefs ==
    {DefaultPrefs, [DefaultPrefs EXCEPT !.activity_pref = activity_options[1]]}

ExportPicks ==
    {DefaultPicks, [DefaultPicks EXCEPT !.activity_selection = <<"Option 2">>]}

\* the states in which an export block can start: line 592 of a run whose
\* synthesis succeeded
InitExport ==
    /\ github_token = Some("token")
    /\ serp_api_key = Some("token")
    /\ MAP_AVAILABLE \in BOOLEAN
    /\ today \in {0, 1}
    /\ inputs \in ExportInputs
    /\ prefs \in ExportPrefs
    /\ picks \in ExportPicks
    /\ trip_history = SynthesizedFor(inputs, prefs, picks, today).trip_history
    /\ research_results = SynthesizedFor(inputs, prefs, picks, today).research_results
    /\ current_trip_data = SynthesizedFor(inputs, prefs, picks, today).current_trip_data
    /\ show_preferences = SynthesizedFor(inputs, prefs, picks, today).show_preferences
    /\ run = SynthesizedFor(inputs, prefs, picks, today).run
    /\ events = 2
    /\ files = {}
    /\ cal = {}

NextExport == GeneratePDF \/ DownloadCalendar

SpecExport == InitExport /\ [][NextExport]_vars

-----------------------------------------------------------------------------
(* get_coordinates on its own: every table key in several spellings and    *)
(* surroundings, pairs of keys, near misses, and every short reply of the  *)
(* geocoding call.                                                         *)

Keys == {location_coords[i].key : i \in 1..Len(location_coords)}

\* str.title() of a one-word key: first letter in upper case
Capitalised(s) == [i \in 1..Len(s) |-> IF i = 1 THEN UpperChar(s[i]) ELSE s[i]]

Spellings(key) == {key, Upper(key), Capitalised(key)}

TextBefore == {<<>>, <<"V","i","s","i","t"," ">>}
TextAfter  == {<<>>, <<" ","s","o","o","n">>}

KnownDestinations ==
    {b \o w \o a : b \in TextBefore, a \in TextAfter,
                   w \in UNION {Spellings(key) : key \in Keys}}

PairDestinations ==
    {k1 \o <<" ">> \o Capitalised(k2) : k1 \in Keys, k2 \in Keys}

UnknownDestinations ==
    {Oz, <<"G","o"," ","a">>, <<"D","e","l","h">>, <<"A","t","l","a","n","t","i","s">>}

GeoDestinationPool == KnownDestinations \cup PairDestinations \cup UnknownDestinations

ReplyAlphabet == {"1", "7", ".", ",", " ", "-", "x"}

\* every text of at most MaxRespLen characters
ReplyTexts == UNION {[1..n -> ReplyAlphabet] : n \in 0..MaxRespLen}

GeoReplies ==
    {[raised |-> TRUE, content |-> <<>>]} \cup
    {[raised |-> FALSE, content |-> t] : t \in ReplyTexts}

\* on entry to the map block of a run whose synthesis succeeded
InitGeo ==
    /\ github_token = Some("token")
    /\ serp_api_key = Some("token")
    /\ MAP_AVAILABLE = TRUE
    /\ today = 0
    /\ \E d \in GeoDestinationPool : inputs = [DefaultInputs EXCEPT !.destination = d]
    /\ prefs = DefaultPrefs
    /\ picks = DefaultPicks
    /\ trip_history = SynthesizedFor(inputs, prefs, picks, today).trip_history
    /\ research_results = SynthesizedFor(inputs, prefs, picks, today).research_results
    /\ current_trip_data = SynthesizedFor(inputs, prefs, picks, today).current_trip_data
    /\ show_preferences = SynthesizedFor(inputs, prefs, picks, today).show_preferences
    /\ run = SynthesizedFor(inputs, prefs, picks, today).run
    /\ events = 2
    /\ files = {}
    /\ cal = {}

\* lat, lon = get_coordinates(trip_data['destination'])
LocateDestination ==
    /\ run.coords = None
    /\ \E reply \in IF InTable(current_trip_data[1].destination)
                    THEN {NoReply} ELSE GeoReplies :
          run' = Locate(Machine, reply).run
    /\ UNCHANGED <<github_token, serp_api_key, MAP_AVAILABLE, trip_history,
                   research_results, current_trip_data, show_preferences, inputs,
                   prefs, picks, events, today, files, cal>>

SpecGeo == InitGeo /\ [][LocateDestination]_vars

-----------------------------------------------------------------------------
(* Properties *)

Range(seq) == {seq[i] : i \in 1..Len(seq)}

\* the calls of the last run made from the section or block named site
CallsFrom(site) == {c \in Range(run.calls) : c.site = site}

\* C1: after a successful synthesis, a press of the document-export or of
\* the calendar-export button makes that export run and offer its artifact
\* (and so it can be pressed again without a new synthesis).
C1_ExportPressRunsExport ==
    (run.event \in {"generate_pdf", "download_calendar"} /\ run.status = "running")
        => /\ run.export = run.event
           /\ run.downloads # <<>>

\* what the panel does for category c under the labels q when no service
\* call fails: whether the call is issued, with which prompt, and the
\* selection recorded
RefinementOf(c, q) ==
    [issued    |-> {d \in Range(PanelBlock(BeginRun("edit", Session, github_token,
                                                    serp_api_key),
                                           q, picks, "none").run.calls) : d.site = c},
     completed |-> c \in DOMAIN PanelBlock(BeginRun("edit", Session, github_token,
                                                    serp_api_key),
                                           q, picks, "none").run.selected,
     selection |-> IF c \in DOMAIN PanelBlock(BeginRun("edit", Session, github_token,
                                                       serp_api_key),
                                              q, picks, "none").run.selected
                   THEN <<PanelBlock(BeginRun("edit", Session, github_token,
                                              serp_api_key),
                                     q, picks, "none").run.selected[c]>>
                   ELSE <<>>]

\* the label combinations that agree with q on category c
SameLabel(c, q) ==
    {v \in [accommodation_pref : PrefPool("accommodation"),
            activity_pref      : PrefPool("activities"),
            dining_pref        : PrefPool("dining"),
            transport_pref     : PrefPool("transportation"),
            special_requests   : {q.special_requests}] : PrefOf(v, c) = PrefOf(q, c)}

\* C2: the refinement of a category (call issued or not, prompt, selection
\* recorded) is the same whatever labels the other three categories carry.
C2_RefinementIndependent ==
    (show_preferences /\ research_results # None)
        => \A c \in CategorySet : \A v \in SameLabel(c, prefs) :
              RefinementOf(c, v) = RefinementOf(c, prefs)

\* the selection the script records for the sentinel label of a category
SentinelRecorded(c) ==
    CASE c = "accommodation"  -> "No Preference"
      [] c = "activities"     -> <<"Mix of Everything">>
      [] c = "dining"         -> <<"No Preference">>
      [] c = "transportation" -> "No Preference"

IsSentinel(c, label) ==
    IF c = "activities" THEN label = "Mix of Everything" ELSE label = "No Preference"

RecordLabel(rec, c) ==
    CASE c = "accommodation"  -> rec.preferences.accommodation
      [] c = "activities"     -> rec.preferences.activities
      [] c = "dining"         -> rec.preferences.dining
      [] c = "transportation" -> rec.preferences.transportation

RecordSelected(rec, c) ==
    CASE c = "accommodation"  -> rec.preferences.selected_accommodation
      [] c = "activities"     -> rec.preferences.selected_activities
      [] c = "dining"         -> rec.preferences.selected_dining
      [] c = "transportation" -> rec.preferences.selected_transport

\* C3: in a run that reaches the section of a category whose label is the
\* sentinel, no recommendation call is made for that category and the
\* selection recorded is the sentinel (a one-element list of it for the
\* multi-choice categories); so is the selection of every trip record.
C3_SentinelSkipsCall ==
    /\ \A c \in CategorySet :
          (PrefWidget(c) \in run.rendered /\ IsSentinel(c, PrefOf(prefs, c)))
              => /\ CallsFrom(c) = {}
                 /\ c \in DOMAIN run.selected
                 /\ run.selected[c] = SentinelRecorded(c)
    /\ \A i \in 1..Len(trip_history) : \A c \in CategorySet :
          IsSentinel(c, RecordLabel(trip_history[i], c))
              => RecordSelected(trip_history[i], c) = SentinelRecorded(c)

C3_Witness ==
    /\ run.status = "running"
    /\ "transportation" \in DOMAIN run.selected
    /\ "activities" \in DOMAIN run.selected
    /\ prefs.transport_pref = "No Preference"
    /\ prefs.activity_pref = "Mix of Everything"
    /\ run.selected["transportation"] = "No Preference"
    /\ run.selected["activities"] = <<"Mix of Everything">>

\* C4: for activities and dining with a label other than the sentinel, an
\* empty multiselect is recorded as ["Option 1"] and a non-empty one as it
\* is; the selection in the synthesis prompt and in every trip record is
\* never empty.
C4_MultiChoiceDefault ==
    /\ \A c \in {"activities", "dining"} :
          (PickWidget(c) \in run.rendered /\ ~IsSentinel(c, PrefOf(prefs, c)))
              => /\ c \in DOMAIN run.selected
                 /\ run.selected[c] = IF PickOf(picks, c) = <<>>
                                      THEN <<"Option 1">> ELSE PickOf(picks, c)
    /\ run.planner_input # None
          => /\ run.planner_input[1].preferences.selected_activities # <<>>
             /\ run.planner_input[1].preferences.selected_dining # <<>>
    /\ \A i \in 1..Len(trip_history) :
          /\ trip_history[i].preferences.selected_activities # <<>>
          /\ trip_history[i].preferences.selected_dining # <<>>

C4_Witness ==
    /\ run.event = "synthesize"
    /\ run.itinerary_text # None
    /\ prefs.dining_pref = "Mix of Both (Rs800-4,000 per meal)"
    /\ picks.dining_selection = <<>>
    /\ run.selected["dining"] = <<"Option 1">>
    /\ trip_history[Len(trip_history)].preferences.selected_dining = <<"Option 1">>

\* this step is a run whose synthesis succeeded
SynthesisSucceeds ==
    /\ events' = events + 1
    /\ run'.event = "synthesize"
    /\ run'.itinerary_text # None

\* C5: a step in which a synthesis succeeds appends exactly one record at
\* the end of the trip history and keeps every earlier record as it was;
\* every other step leaves the history unchanged.  Hence its length is the
\* number of successful syntheses.
C5_HistoryAppendOnly ==
    [][IF SynthesisSucceeds
       THEN /\ Len(trip_history') = Len(trip_history) + 1
            /\ SubSeq(trip_history', 1, Len(trip_history)) = trip_history
            /\ trip_history'[Len(trip_history')].itinerary = run'.itinerary_text[1]
       ELSE trip_history' = trip_history]_vars

C5_Witness ==
    /\ Len(trip_history) = 2
    /\ run.event = "synthesize"
    /\ run.itinerary_text # None

C7_CalendarEvents ==
    (run.export = "download_calendar"
       /\ "error: creating calendar" \notin Range(run.messages))
        => /\ Cardinality(cal) = current_trip_data[1].num_days
           /\ \A i \in 0..(current_trip_data[1].num_days - 1) :
                 Cardinality({e \in cal : e.begin = today + i}) = 1
           /\ \A e \in cal : e.duration = 8
           /\ Len(run.downloads) = 1
           /\ run.downloads[1].mime = "text/calendar"
           /\ run.downloads[1].body = cal

C7_Witness ==
    /\ run.export = "download_calendar"
    /\ run.downloads # <<>>
    /\ current_trip_data[1].num_days = 3
    /\ Cardinality(cal) = 3

\* the table entries whose key occurs in the lower-cased destination
Hits(destination) ==
    {i \in 1..Len(location_coords) :
        Contains(Lower(destination), location_coords[i].key)}

FirstHit(destination) ==
    CHOOSE i \in Hits(destination) : \A j \in Hits(destination) : i <= j

\* C8: when the lower-cased destination contains a table key, the pair
\* returned is the one stored for the first such key in table order,
\* whatever the letter case and the surrounding text, and the model is not
\* called.
C8_TableLookup ==
    (run.coords # None /\ Hits(current_trip_data[1].destination) # {})
        => /\ run.coords[1]
                = location_coords[FirstHit(current_trip_data[1].destination)].coords
           /\ CallsFrom("geocode") = {}

C8_Witness ==
    /\ run.coords = Some(<<152993, 741240>>)
    /\ current_trip_data[1].destination
          = <<"V","i","s","i","t"," ","G","O","A"," ","s","o","o","n">>

\* a text that reads as a decimal number: an optional sign, then digits with
\* at most one point among them and at least one digit
Numeric(u) ==
    /\ Strip(u) # <<>>
    /\ \A i \in 2..Len(Strip(u)) : Strip(u)[i] \in Range(Digits) \cup {"."}
    /\ Strip(u)[1] \in Range(Digits) \cup {".", "-", "+"}
    /\ Cardinality({i \in 1..Len(Strip(u)) : Strip(u)[i] = "."}) <= 1
    /\ \E i \in 1..Len(Strip(u)) : Strip(u)[i] \in Range(Digits)

Commas(t) == {i \in 1..Len(t) : t[i] = ","}
TheComma(t) == CHOOSE i \in Commas(t) : TRUE
BeforeComma(t) == SubSeq(t, 1, TheComma(t) - 1)
AfterComma(t) == SubSeq(t, TheComma(t) + 1, Len(t))

\* the reply is exactly two numbers separated by one comma
TwoNumbers(t) ==
    /\ Cardinality(Commas(t)) = 1
    /\ Numeric(BeforeComma(t))
    /\ Numeric(AfterComma(t))

\* C9: when no table key matches, get_coordinates returns the parsed pair
\* only if the reply is exactly two comma-separated numbers, and the
\* default (20.5937, 78.9629) in every other case: the call raises, no
\* comma, more than one comma, a part that is not a number.
C9_FallbackDefault ==
    (run.coords # None /\ Hits(current_trip_data[1].destination) = {})
        => /\ Cardinality(CallsFrom("geocode")) = 1
           /\ \A c \in CallsFrom("geocode") :
                 IF ~c.raised /\ TwoNumbers(c.response)
                 THEN run.coords[1] = <<FloatValue(Strip(BeforeComma(c.response))),
                                        FloatValue(Strip(AfterComma(c.response)))>>
                 ELSE run.coords[1] = <<205937, 789629>>

C9_Witness ==
    /\ run.coords = Some(<<205937, 789629>>)
    /\ Hits(current_trip_data[1].destination) = {}
    /\ \E c \in CallsFrom("geocode") :
          ~c.raised /\ c.response = <<"1", ",", "7", ",">>

\* a credential that is unset or empty
Absent(v) == v = <<>> \/ v = <<"">>

\* C10: while the model token or the search key is absent, no model or
\* search call has been issued, the session holds its initial values, only
\* the widgets above the start button are on screen, and a press of the
\* start button has only reported the error.
C10_NoCallsWithoutCredentials ==
    (Absent(github_token) \/ Absent(serp_api_key))
        => /\ run.calls = <<>>
           /\ trip_history = <<>>
           /\ research_results = <<>>
           /\ current_trip_data = <<>>
           /\ show_preferences = FALSE
           /\ run.rendered = {"destination", "num_days", "budget", "language",
                              "start_button"}
           /\ run.event = "start"
                => "error: set credentials" \in Range(run.messages)

C10_Witness ==
    /\ Absent(serp_api_key)
    /\ ~Absent(github_token)
    /\ run.event = "start"
    /\ inputs.destination # <<>>
    /\ "error: set credentials" \in Range(run.messages)

\* the four entries of st.session_state are as they were
SessionUnchanged ==
    UNCHANGED <<research_results, current_trip_data, show_preferences, trip_history>>

\* this step is a press of the start button with the destination empty
EmptyDestinationPress ==
    /\ events' = events + 1
    /\ run'.event = "start"
    /\ inputs'.destination = <<>>

PageOf(p) ==
    PanelBlock(BeginRun("edit", Session, github_token, serp_api_key),
               p, picks, "none").run.rendered

\* the synthesis button comes up on the next run, or on the one after a
\* change of the accommodation selectbox that the next run draws
SynthesisWithinReach ==
    \/ "generate_itinerary" \in PageOf(prefs)
    \/ /\ "accommodation_pref" \in PageOf(prefs)
       /\ \E label \in PrefPool("accommodation") :
             "generate_itinerary" \in PageOf(WithPref(prefs, "accommodation", label))

\* a press of the start button with a destination typed in reaches
\* researcher.invoke
ResearchWithinReach ==
    \E d \in DestinationPool \ {<<>>} :
        \E c \in Range(StartBlock(BeginRun("start", Session, github_token, serp_api_key),
                                  [inputs EXCEPT !.destination = d],
                                  github_token, serp_api_key,
                                  [raised |-> FALSE, output |-> "research A",
                                   searches |-> 0]).run.calls) :
            c.site = "researcher"

\* C12: whatever error the last run met, the session goes on: the start
\* button is on the page and can be pressed, and once a research artifact
\* exists the synthesis button can be brought up again.
C12_ErrorsKeepSession ==
    /\ "start_button" \in run.rendered
    /\ (~Absent(github_token) /\ ~Absent(serp_api_key)) => ResearchWithinReach
    /\ research_results # <<>> => SynthesisWithinReach

C12_Witness ==
    /\ run.status = "exception"
    /\ \E c \in CallsFrom("researcher") : c.raised
    /\ research_results # <<>>
    /\ "generate_itinerary" \notin run.rendered

\* C13: a research, recommendation or synthesis call that raises is caught
\* where it is made, so the run goes on to its end instead of being aborted
\* by the exception.
C13_FailuresCaught ==
    \A c \in Range(run.calls) :
        (c.site \in {"researcher", "planner"} \cup CategorySet /\ c.raised)
            => run.status = "running"

\* the messages the document export block has shown with st.error
HardErrors ==
    Range(run.messages)
        \cap {"error: all PDF generation methods failed", "error: export failed"}

\* C14: document export shows a hard error only when the plain-text
\* fallback, tried after both PDF methods failed, itself fails; a failure of
\* WeasyPrint or of ReportLab shows none.
C14_HardErrorOnlyFromTextFallback ==
    (run.export = "generate_pdf" /\ HardErrors # {})
        => /\ "warning: PDF generation unavailable" \in Range(run.messages)
           /\ run.downloads = <<>>

\* C15: when the map section runs and no map is drawn, because the
\* mapping libraries are missing or because drawing raised, the page shows
\* the destination and its coordinate pair as text.
C15_MapFallbackShowsBoth ==
    (run.itinerary_text # <<>> /\ run.status = "running" /\ run.map # "rendered")
        => /\ "info: destination" \in Range(run.messages)
           /\ "info: coordinates" \in Range(run.messages)
           /\ run.coords # <<>>

\* the three options the recommendation call generates
GeneratedOptions == {"Option 1", "Option 2", "Option 3"}

\* the fourth entry of the option selectbox of a single-choice category
Delegated(c) ==
    IF c = "accommodation" THEN "Let AI decide based on budget"
    ELSE "Combination of options"

KeepsLabel(c) ==
    /\ events' = events + 1
    /\ run'.event # "start"
    /\ research_results' = research_results
    /\ PrefOf(prefs', c) = PrefOf(prefs, c)

\* C17: once the recommendation call of a category has been issued for its
\* label, a user action that leaves that label as it is (a change of another
\* widget, an edit of the special requests, a press of the synthesis button)
\* does not issue that call again.
C17_RecommendationIssuedOnce ==
    [][\A c \in CategorySet :
          (CallsFrom(c) # {} /\ KeepsLabel(c)) => CallsFrom(c)' = {}]_vars

\* the places of the synthesis calls among the calls of the last run
PlannerCalls == {i \in 1..Len(run.calls) : run.calls[i].site = "planner"}

\* C18: a run makes a synthesis call only for a press of the synthesis
\* button, and then exactly one, whether it answers or raises; the
\* itinerary shown and the one stored in the record appended are the text
\* of that call's answer.
C18_OneCompletionVerbatim ==
    /\ Cardinality(PlannerCalls) <= 1
    /\ run.event # "synthesize" => PlannerCalls = {}
    /\ (run.event = "synthesize" /\ "generate_itinerary" \in run.rendered)
          => Cardinality(PlannerCalls) = 1
    /\ \A i \in PlannerCalls :
          IF run.calls[i].raised
          THEN run.itinerary_text = <<>>
          ELSE /\ run.itinerary_text = <<run.calls[i].response>>
               /\ trip_history[Len(trip_history)].itinerary = run.calls[i].response
    /\ run.itinerary_text # <<>> => PlannerCalls # {}

C18_Witness ==
    /\ run.event = "synthesize"
    /\ Cardinality(PlannerCalls) = 1
    /\ run.itinerary_text = <<"itinerary B">>
    /\ trip_history[Len(trip_history)].itinerary = "itinerary B"

\* C19: while no research has succeeded the session has issued no
\* recommendation call and no synthesis call and holds no trip record; the
\* calls of a run come after its research call and are given the current
\* research artifact; and the record a synthesis appends holds the artifact
\* that was current in that run.
C19_StageOrdering ==
    /\ research_results = <<>>
          => /\ \A c \in Range(run.calls) : c.site \notin CategorySet \cup {"planner"}
             /\ trip_history = <<>>
    /\ \A i \in 1..Len(run.calls) :
          /\ run.calls[i].site \in CategorySet
                => run.calls[i].prompt.research = research_results[1]
          /\ run.calls[i].site = "planner"
                => run.calls[i].prompt.research = research_results[1]
          /\ run.calls[i].site = "researcher" => i = 1
    /\ run.itinerary_text # <<>>
          => trip_history[Len(trip_history)].research = research_results[1]

C19_Witness ==
    /\ run.event = "synthesize"
    /\ run.itinerary_text # <<>>
    /\ research_results = <<"research B">>
    /\ trip_history[Len(trip_history)].research = "research B"
    /\ CallsFrom("dining") # {}

\* this step is a press of the start button whose research call raised
ResearchFails ==
    /\ events' = events + 1
    /\ run'.event = "start"
    /\ \E i \in 1..Len(run'.calls) :
          run'.calls[i].site = "researcher" /\ run'.calls[i].raised

\* this step is a press of the start button whose research call answered
ResearchAnswers ==
    /\ events' = events + 1
    /\ run'.event = "start"
    /\ \E i \in 1..Len(run'.calls) :
          run'.calls[i].site = "researcher" /\ ~run'.calls[i].raised

\* C20: a press of the start button whose research call fails leaves
\* research_results, current_trip_data and show_preferences as they were;
\* the three are only ever written together, by a research that answered,
\* so the session never holds an artifact without its trip data.
C20_FailedResearchWritesNothing ==
    [][/\ ResearchFails
            => UNCHANGED <<research_results, current_trip_data, show_preferences>>
       /\ ResearchAnswers
            => /\ current_trip_data' = <<run'.calls[1].prompt>>
               /\ research_results' # <<>>
               /\ show_preferences'
       /\ (research_results' = <<>>) <=> (current_trip_data' = <<>>)
       /\ (research_results' = <<>>) <=> ~show_preferences']_vars

C20_Witness ==
    /\ run.event = "start"
    /\ run.status = "exception"
    /\ \E c \in CallsFrom("researcher") : c.raised
    /\ research_results = <<"research A">>
    /\ current_trip_data # <<>>
    /\ current_trip_data[1].destination # inputs.destination

\* the trip request a prompt or a record was built from
RequestOf(v) ==
    [destination |-> v.destination, num_days |-> v.num_days,
     budget |-> v.budget, language |-> v.language]

\* the request held by the last record of the history
RecordRequest ==
    [destination |-> trip_history[Len(trip_history)].destination,
     num_days    |-> trip_history[Len(trip_history)].days,
     budget      |-> trip_history[Len(trip_history)].budget,
     language    |-> trip_history[Len(trip_history)].language]

\* C21: the trip request is the one the last successful research captured:
\* a research call that answers stores the request it was given, and every
\* recommendation prompt, the synthesis prompt, the geocoding request and
\* the record a synthesis appends carry the stored destination, day count,
\* budget and language, whatever the input widgets hold by then.
C21_RequestFixedByResearch ==
    /\ \A c \in Range(run.calls) :
          /\ (c.site = "researcher" /\ ~c.raised)
                => current_trip_data = <<c.prompt>>
          /\ c.site \in CategorySet \cup {"planner"}
                => /\ current_trip_data # <<>>
                   /\ RequestOf(c.prompt) = current_trip_data[1]
          /\ c.site = "geocode"
                => /\ current_trip_data # <<>>
                   /\ c.prompt.destination = current_trip_data[1].destination
    /\ run.itinerary_text # <<>>
          => /\ current_trip_data # <<>>
             /\ RecordRequest = current_trip_data[1]

C21_Witness ==
    /\ run.event = "synthesize"
    /\ run.itinerary_text # <<>>
    /\ CallsFrom("accommodation") # {}
    /\ CallsFrom("planner") # {}
    /\ inputs.destination # current_trip_data[1].destination
    /\ inputs.destination # <<>>
    /\ RecordRequest = current_trip_data[1]

\* the nine entries of a "preferences" dictionary
PreferenceKeys ==
    {"accommodation", "selected_accommodation", "activities", "selected_activities",
     "dining", "selected_dining", "transportation", "selected_transport",
     "special_requests"}

\* C22: when a synthesis succeeds, the preference labels, the selections
\* and the special-requests text of the record it appends are those of the
\* prompt its synthesis call was given, entry by entry, and both are the
\* widget values and the selections of that run.
C22_RecordMatchesPrompt ==
    run.itinerary_text # <<>>
       => /\ run.planner_input # <<>>
          /\ DOMAIN run.planner_input[1].preferences = PreferenceKeys
          /\ DOMAIN trip_history[Len(trip_history)].preferences = PreferenceKeys
          /\ \A c \in CallsFrom("planner") :
                /\ c.prompt = run.planner_input[1]
                /\ \A key \in PreferenceKeys :
                      trip_history[Len(trip_history)].preferences[key]
                         = c.prompt.preferences[key]
          /\ run.planner_input[1].preferences = Preferences(run.selected, prefs)

C22_Witness ==
    /\ run.event = "synthesize"
    /\ run.itinerary_text # <<>>
    /\ prefs.special_requests = "vegetarian food"
    /\ \E c \in CallsFrom("planner") :
          /\ c.prompt.preferences.special_requests = "vegetarian food"
          /\ c.prompt.preferences.selected_dining = <<"Option 1">>
    /\ trip_history[Len(trip_history)].preferences.special_requests = "vegetarian food"
    /\ trip_history[Len(trip_history)].preferences.selected_dining = <<"Option 1">>

\* C23: research_results and current_trip_data change only in a step that
\* is a press of the start button whose research call answered, and then
\* both are replaced whole: the trip data by the request of that call, the
\* results by its output.  Every other step (a widget edit, a run with
\* recommendation calls, a synthesis, the map, the history, an export
\* press) leaves both as they were.
C23_ArtifactOnlyReplaced ==
    [][IF ResearchAnswers
       THEN /\ current_trip_data' = <<run'.calls[1].prompt>>
            /\ research_results' \in {<<r>> : r \in ResearchPool}
       ELSE UNCHANGED <<research_results, current_trip_data>>]_vars

C23_Witness ==
    /\ run.event = "synthesize"
    /\ run.itinerary_text # <<>>
    /\ CallsFrom("accommodation") # {}
    /\ CallsFrom("geocode") # {}
    /\ run.map = "rendered"
    /\ "trip_history" \in run.rendered
    /\ research_results = <<"research B">>
    /\ current_trip_data = <<[destination |-> Oz, num_days |-> 7,
                              budget |-> 100000, language |-> "English"]>>

\* the document files on disk: the .pdf names the export block writes
DocumentFiles == {f \in files : f.stem = "itinerary"}

\* C24: once a document export has finished, by whichever path (a PDF
\* offered, the text offered instead, or "Export failed"), no generated
\* document file is left on disk.
C24_NoDocumentLeft ==
    run.export = "generate_pdf" => DocumentFiles = {}

\* the keys of the dictionary stored in current_trip_data
TripDataKeys == {"destination", "num_days", "budget", "language"}

\* C25: in every state in which show_preferences is true, current_trip_data
\* is a dictionary with destination, num_days, budget and language and
\* research_results holds the output of a research call; and a step that
\* writes show_preferences, current_trip_data or research_results is a
\* research that answered and writes all three.
C25_PanelImpliesResearch ==
    /\ [](show_preferences
            => /\ current_trip_data # <<>>
               /\ DOMAIN current_trip_data[1] = TripDataKeys
               /\ current_trip_data[1].destination # <<>>
               /\ research_results \in {<<r>> : r \in ResearchPool})
    /\ [][(\/ show_preferences' # show_preferences
           \/ current_trip_data' # current_trip_data
           \/ research_results' # research_results)
             => /\ ResearchAnswers
                /\ show_preferences'
                /\ current_trip_data' # <<>>
                /\ research_results' # <<>>]_vars

C25_Witness ==
    /\ show_preferences
    /\ run.event = "start"
    /\ \E c \in CallsFrom("researcher") : ~c.raised /\ current_trip_data = <<c.prompt>>
    /\ research_results = <<"research B">>
    /\ PrefWidget("accommodation") \in run.rendered
    /\ "generate_itinerary" \in run.rendered

====
